---- MODULE Spec2Model ----
(***************************************************************************)
(* Model of danswer's local file connector                                 *)
(* (backend/danswer/connectors/file/connector.py).                         *)
(*                                                                         *)
(* A string is a sequence of atoms.  The metadata marker is spelled out    *)
(* character by character; JSON text is spelled by its lexical tokens.     *)
(* A file name is a sequence of atoms whose last atom is its extension     *)
(* (<<"a", ".txt">> is a.txt); a path is a sequence of file names.         *)
(***************************************************************************)
EXTENDS Integers, Sequences, FiniteSets, TLC

\* ------------------------------------------------------------------ bounds
MaxLocations == 3
MaxBatchSize == 2
MaxLines == 2
MaxReLocations == 2
MaxInvocations == 2
MaxOffset == 2
MaxChunks == 5
MaxUnranked == 1

\* ------------------------------------------------------- string primitives
StartsWith(s, p) ==
    /\ Len(p) <= Len(s)
    /\ SubSeq(s, 1, Len(p)) = p

\* Positions at which p occurs in s.
Occurrences(s, p) ==
    {i \in 1..(Len(s) - Len(p) + 1) : SubSeq(s, i, i + Len(p) - 1) = p}

\* str.replace(p, "", 1): drop the first occurrence of p, if any.
ReplaceFirst(s, p) ==
    IF Occurrences(s, p) = {} THEN s
    ELSE LET i == CHOOSE k \in Occurrences(s, p) :
                      \A m \in Occurrences(s, p) : k <= m
         IN SubSeq(s, 1, i - 1) \o SubSeq(s, i + Len(p), Len(s))

\* The concatenation of a sequence of sequences.
RECURSIVE Concat(_)
Concat(ss) == IF ss = <<>> THEN <<>> ELSE Head(ss) \o Concat(Tail(ss))

Whitespace == {" ", "\n", "\r", "\t"}

\* str.strip(): drop leading and trailing whitespace.
Strip(s) ==
    LET keep == {i \in 1..Len(s) : s[i] \notin Whitespace}
    IN IF keep = {} THEN <<>>
       ELSE LET lo == CHOOSE k \in keep : \A m \in keep : k <= m
                hi == CHOOSE k \in keep : \A m \in keep : k >= m
            IN SubSeq(s, lo, hi)

\* Iterating a stream: the content cut after every "\n", terminators kept.
RECURSIVE SplitLines(_)
SplitLines(c) ==
    IF c = <<>> THEN <<>>
    ELSE LET nl == {i \in 1..Len(c) : c[i] = "\n"}
         IN IF nl = {} THEN <<c>>
            ELSE LET e == CHOOSE k \in nl : \A m \in nl : k <= m
                 IN <<SubSeq(c, 1, e)>> \o SplitLines(SubSeq(c, e + 1, Len(c)))

\* bytes.decode("utf-8") on the byte atoms of the model: ASCII atoms decode
\* to themselves, the pair 0xC3 0xA9 decodes to one character, and 0xFF, a
\* 0xC3 without its continuation byte or a stray 0xA9 does not decode.
Utf8Decode(b) ==
    LET n == Len(b)
        bad == {i \in 1..n :
                  \/ b[i] = "0xFF"
                  \/ b[i] = "0xC3" /\ (i = n \/ b[i + 1] # "0xA9")
                  \/ b[i] = "0xA9" /\ (i = 1 \/ b[i - 1] # "0xC3")}
        chars == [i \in 1..n |-> IF b[i] = "0xC3" THEN "U+00E9" ELSE b[i]]
    IN IF bad # {} THEN [ok |-> FALSE, val |-> <<>>]
       ELSE [ok |-> TRUE, val |-> SelectSeq(chars, LAMBDA x : x # "0xA9")]

\* ------------------------------------------------------------------- JSON
JsonStrings == {"link", "http://x", "k", "v"}
EmptyMap == [x \in {} |-> ""]

\* Members of a JSON object body: key : value { , key : value }.
RECURSIVE JsonPairs(_)
JsonPairs(t) ==
    IF Len(t) < 3 \/ t[1] \notin JsonStrings \/ t[2] # ":"
                  \/ t[3] \notin JsonStrings
    THEN [ok |-> FALSE, obj |-> EmptyMap]
    ELSE IF Len(t) = 3 THEN [ok |-> TRUE, obj |-> (t[1] :> t[3])]
    ELSE IF t[4] # "," THEN [ok |-> FALSE, obj |-> EmptyMap]
    ELSE LET r == JsonPairs(SubSeq(t, 5, Len(t)))
         IN [ok |-> r.ok, obj |-> (r.obj @@ (t[1] :> t[3]))]

\* json.loads: an object, a bare number (valid JSON, not a dict), or an
\* error.
JsonLoads(t) ==
    IF t = <<"1">> THEN [ok |-> TRUE, isdict |-> FALSE, obj |-> EmptyMap]
    ELSE IF Len(t) >= 2 /\ t[1] = "{" /\ t[Len(t)] = "}"
    THEN IF Len(t) = 2 THEN [ok |-> TRUE, isdict |-> TRUE, obj |-> EmptyMap]
         ELSE LET r == JsonPairs(SubSeq(t, 2, Len(t) - 1))
              IN [ok |-> r.ok, isdict |-> TRUE, obj |-> r.obj]
    ELSE [ok |-> FALSE, isdict |-> FALSE, obj |-> EmptyMap]

\* dict.get(key, default)
DictGet(d, key, default) == IF key \in DOMAIN d THEN d[key] ELSE default

\* ------------------------------------------------------------- file names
\* os.path.basename: the last component of a path.
Basename(path) == IF path = <<>> THEN <<>> ELSE path[Len(path)]

ExtensionAtoms == {".txt", ".pdf", ".zip", ".tar", ".gz", ".tgz", ".md"}

get_file_ext(name) ==
    IF Len(name) >= 2 /\ name[Len(name)] \in ExtensionAtoms
    THEN name[Len(name)] ELSE ""

VALID_FILE_EXTENSIONS == {".txt"}

check_file_ext_is_valid(name) == get_file_ext(name) \in VALID_FILE_EXTENSIONS

\* A tar or compressed-tar file name: x.tar, x.tar.gz, x.tgz.
TAR_MATCH(name) ==
    \/ get_file_ext(name) \in {".tar", ".tgz"}
    \/ /\ Len(name) >= 3
       /\ name[Len(name)] = ".gz"
       /\ name[Len(name) - 1] = ".tar"

\* ---------------------------------------------------------- _process_file
_METADATA_FLAG ==
    <<"#", "D", "A", "N", "S", "W", "E", "R", "_",
      "M", "E", "T", "A", "D", "A", "T", "A", "=">>

Section(link, text) == [link |-> link, text |-> text]

\* Mutant: the sidecar's link is also stored as Document metadata.
DocumentCarriesLink(id, sections) ==
    [id |-> id, sections |-> sections, source |-> "file",
     semantic_identifier |-> id,
     metadata |-> [x \in {"link"} |-> sections[1].link]]

Document(id, sections) ==
    [id |-> id, sections |-> sections, source |-> "file",
     semantic_identifier |-> id, metadata |-> EmptyMap]

\* Mutant: the metadata line is parsed and also kept as content.
LineStepKeepsMetadataLine(acc, ind, rawline, binary) ==
    IF acc.exc # "none" THEN acc
    ELSE LET dec == IF binary THEN Utf8Decode(rawline)
                    ELSE [ok |-> TRUE, val |-> rawline]
         IN IF ~dec.ok THEN [acc EXCEPT !.exc = "UnicodeDecodeError"]
            ELSE IF ind = 0 /\ StartsWith(dec.val, _METADATA_FLAG)
            THEN LET j == JsonLoads(Strip(ReplaceFirst(dec.val, _METADATA_FLAG)))
                 IN IF ~j.ok THEN [acc EXCEPT !.exc = "JSONDecodeError"]
                    ELSE [acc EXCEPT !.isdict = j.isdict, !.metadata = j.obj,
                                     !.raw = acc.raw \o dec.val]
            ELSE [acc EXCEPT !.raw = acc.raw \o dec.val]

\* Mutant: the marker is honoured on every line, not only on the first.
LineStepAnyLine(acc, ind, rawline, binary) ==
    IF acc.exc # "none" THEN acc
    ELSE LET dec == IF binary THEN Utf8Decode(rawline)
                    ELSE [ok |-> TRUE, val |-> rawline]
         IN IF ~dec.ok THEN [acc EXCEPT !.exc = "UnicodeDecodeError"]
            ELSE IF StartsWith(dec.val, _METADATA_FLAG)
            THEN LET j == JsonLoads(Strip(ReplaceFirst(dec.val, _METADATA_FLAG)))
                 IN IF ~j.ok THEN [acc EXCEPT !.exc = "JSONDecodeError"]
                    ELSE [acc EXCEPT !.isdict = j.isdict, !.metadata = j.obj]
            ELSE [acc EXCEPT !.raw = acc.raw \o dec.val]

\* The loop body of _process_file for line number ind (0-based) of the
\* stream; acc carries metadata, file_content_raw and the pending exception.
LineStep(acc, ind, rawline, binary) ==
    IF acc.exc # "none" THEN acc
    ELSE LET dec == IF binary THEN Utf8Decode(rawline)
                    ELSE [ok |-> TRUE, val |-> rawline]
         IN IF ~dec.ok THEN [acc EXCEPT !.exc = "UnicodeDecodeError"]
            ELSE IF ind = 0 /\ StartsWith(dec.val, _METADATA_FLAG)
            THEN LET j == JsonLoads(Strip(ReplaceFirst(dec.val, _METADATA_FLAG)))
                 IN IF ~j.ok THEN [acc EXCEPT !.exc = "JSONDecodeError"]
                    ELSE [acc EXCEPT !.isdict = j.isdict, !.metadata = j.obj]
            ELSE [acc EXCEPT !.raw = acc.raw \o dec.val]

RECURSIVE ReadLines(_, _, _, _)
ReadLines(acc, ind, lines, binary) ==
    IF lines = <<>> THEN acc
    ELSE ReadLines(LineStep(acc, ind, Head(lines), binary),
                   ind + 1, Tail(lines), binary)

\* What iterating the stream gives: the content after its position.
Unread(file) == SubSeq(file.content, file.pos + 1, Len(file.content))

\* _process_file(file_name, file): the exception raised ("none" when it
\* returns), the returned list, and whether the stream was iterated.
_process_file(file_name, file) ==
    IF ~check_file_ext_is_valid(file_name)
    THEN [exc |-> "none", docs |-> <<>>, read |-> FALSE]
    ELSE LET acc == ReadLines([exc |-> "none", isdict |-> TRUE,
                               metadata |-> EmptyMap, raw |-> <<>>],
                              0, SplitLines(Unread(file)), file.binary)
         IN IF acc.exc # "none"
            THEN [exc |-> acc.exc, docs |-> <<>>, read |-> TRUE]
            ELSE IF ~acc.isdict
            THEN [exc |-> "AttributeError", docs |-> <<>>, read |-> TRUE]
            ELSE [exc |-> "none", read |-> TRUE,
                  docs |-> <<Document(file_name,
                               <<Section(DictGet(acc.metadata, "link", ""),
                                         acc.raw)>>)>>]

\* ------------------------------------------------------ the file system
Hello == <<"h", "e", "l", "l", "o", "\n", "w", "o", "r", "l", "d", "\n">>
JsonLink == <<"{", "link", ":", "http://x", "}">>
JsonLinkAndKey == <<"{", "k", ":", "v", ",", "link", ":", "http://x", "}">>
MetaLine == _METADATA_FLAG \o JsonLink \o <<"\n">>

Entry(path, isfile, extractable, content) ==
    [path |-> path, isfile |-> isfile, extractable |-> extractable,
     content |-> content]

Location(path, corrupt, entries) ==
    [path |-> path, corrupt |-> corrupt, entries |-> entries]

TxtMeta == Location(<< <<"docs">>, <<"d", ".txt">> >>, FALSE,
                    <<Entry(<< <<"docs">>, <<"d", ".txt">> >>, TRUE, TRUE,
                            MetaLine \o Hello)>>)
\* The archive of the specification's example: a.txt, b.pdf, notes/c.txt.
ZipSpec == Location(<< <<"z", ".zip">> >>, FALSE,
    <<Entry(<< <<"a", ".txt">> >>, TRUE, TRUE, <<"a", "\r", "\n", "b">>),
      Entry(<< <<"b", ".pdf">> >>, TRUE, TRUE, Hello),
      Entry(<< <<"notes">>, <<"c", ".txt">> >>, TRUE, TRUE,
            _METADATA_FLAG \o JsonLinkAndKey \o <<" ", "\n", "0xC3", "0xA9">>)>>)
ZipCorrupt == Location(<< <<"bad", ".zip">> >>, TRUE, <<>>)
ZipOnlyPdf == Location(<< <<"p", ".zip">> >>, FALSE,
    <<Entry(<< <<"p", ".pdf">> >>, TRUE, TRUE, <<"0xFF">>)>>)
ZipUndecodable == Location(<< <<"u", ".zip">> >>, FALSE,
    <<Entry(<< <<"a", ".txt">> >>, TRUE, TRUE, Hello),
      Entry(<< <<"u", ".txt">> >>, TRUE, TRUE, <<"x", "\n", "0xFF">>)>>)
ZipBadJson == Location(<< <<"j", ".zip">> >>, FALSE,
    <<Entry(<< <<"j", ".txt">> >>, TRUE, TRUE,
            _METADATA_FLAG \o <<"{", "link", "\n">> \o Hello)>>)
TarMixed == Location(<< <<"t", ".tar", ".gz">> >>, FALSE,
    <<Entry(<< <<"notes">> >>, FALSE, FALSE, <<>>),
      Entry(<< <<"notes">>, <<"f", ".txt">> >>, TRUE, TRUE,
            <<"f", "\n">> \o MetaLine),
      Entry(<< <<"g", ".txt">> >>, TRUE, FALSE, Hello),
      Entry(<< <<"r", ".md">> >>, TRUE, TRUE, Hello)>>)
Unsupported == Location(<< <<"e", ".pdf">> >>, FALSE,
    <<Entry(<< <<"e", ".pdf">> >>, TRUE, TRUE, Hello)>>)

LocationUniverse ==
    {TxtMeta, ZipSpec, ZipCorrupt, ZipOnlyPdf, ZipUndecodable, ZipBadJson,
     TarMixed, Unsupported}

SeqsUpTo(S, n) == UNION {[1..k -> S] : k \in 0..n}

\* ------------------------------------------------------------------ state
VARIABLES
    file_locations,  \* self.file_locations
    batch_size,      \* self.batch_size
    pc,              \* position of the load_from_state generator
    loc_idx,         \* index of file_location in the outer for loop
    files,           \* the generator _open_files_at_location(file_location)
    cur,             \* the pair (file_name, file) bound by the inner for loop
    documents,       \* the accumulator
    batches,         \* batches received by the consumer, in yield order
    error,           \* exception that surfaced to the consumer
    container_open,  \* locations whose archive / text file handle is open
    member_open,     \* <<location, entry>> of open zip member streams
    opened,          \* history: locations whose container was opened
    handed,          \* history: <<location, entry>> yielded by a reader
    reads,           \* history: <<location, entry>> whose content was read
    built,           \* history: Documents returned by _process_file
    pf_pc, pf_name, pf_file, pf_result,  \* one call of _process_file
    acc_id,          \* identity of the list object bound to documents
    batch_ids,       \* identities of the list objects yielded as batches
    invocation,      \* number of the current call of load_from_state
    prev_batches,    \* batches the previous call of load_from_state yielded
    prev_pc,         \* where the previous call of load_from_state ended
    cred_result,     \* what load_credentials returned, once called
    qa_pc,           \* position of answer_question
    question,        \* its QuestionRequest
    predicted,       \* what query_intent returned
    ranked_chunks,   \* what retrieval returned
    unranked_chunks,
    model_raises,    \* whether qa_model.answer_question raised
    model_calls,     \* the chunk lists passed to qa_model.answer_question
    qa_out           \* the QAResponse returned or the exception raised

vars == <<file_locations, batch_size, pc, loc_idx, files, cur, documents,
          batches, error, container_open, member_open, opened, handed,
          reads, built, pf_pc, pf_name, pf_file, pf_result, acc_id,
          batch_ids, invocation, prev_batches, prev_pc, cred_result, qa_pc, question,
          predicted,
          ranked_chunks, unranked_chunks, model_raises, model_calls, qa_out>>

config == <<file_locations, batch_size>>
pfvars == <<pf_pc, pf_name, pf_file, pf_result>>
io == <<container_open, member_open, opened, handed, reads>>
ids == <<acc_id, batch_ids>>
qavars == <<qa_pc, question, predicted, ranked_chunks, unranked_chunks,
            model_raises, model_calls, qa_out>>
other == <<invocation, prev_batches, prev_pc, cred_result, qavars>>

NoFiles == [state |-> "none", idx |-> 0]
NoCur == [file_name |-> <<>>, entry |-> 0,
          file |-> [content |-> <<>>, binary |-> FALSE, pos |-> 0]]
NoResult == [exc |-> "none", docs |-> <<>>, read |-> FALSE]
\* An optional value: None, or Some(x).
None == <<>>
Some(x) == <<x>>

NoQuestion == [offset |-> None, use_keyword |-> None]
NoIntent == [search |-> "none", flow |-> "none"]
NoResponse == [kind |-> "none"]

\* answer_question is not running.
QAIdle ==
    /\ qa_pc = "unused"
    /\ question = NoQuestion
    /\ predicted = NoIntent
    /\ ranked_chunks = <<>>
    /\ unranked_chunks = <<>>
    /\ model_raises = FALSE
    /\ model_calls = <<>>
    /\ qa_out = NoResponse

\* No call of _process_file on its own.
PFIdle ==
    /\ pf_pc = "unused"
    /\ pf_name = <<>>
    /\ pf_file = NoCur.file
    /\ pf_result = NoResult

\* A connector on which load_from_state has just been called.
LoadCreated ==
    /\ pc = "created"
    /\ loc_idx = 0
    /\ files = NoFiles
    /\ cur = NoCur
    /\ documents = <<>>
    /\ batches = <<>>
    /\ error = "none"
    /\ container_open = {}
    /\ member_open = {}
    /\ opened = <<>>
    /\ handed = <<>>
    /\ reads = <<>>
    /\ built = <<>>
    /\ acc_id = 1
    /\ batch_ids = <<>>
    /\ invocation = 1
    /\ prev_batches = <<>>
    /\ prev_pc = "none"
    /\ cred_result = "uncalled"

Init ==
    /\ file_locations \in SeqsUpTo(LocationUniverse, MaxLocations)
    /\ batch_size \in 1..MaxBatchSize
    /\ LoadCreated
    /\ PFIdle
    /\ QAIdle

\* ---------------------------------------------------- the container readers
\* One resumption of a reader generator: what it does to the handles and
\* how it comes back (outcome "yield", "stop" for StopIteration, or "raise").
Effect(outcome, state, idx, exc, copen, cclose, mopen, mclose) ==
    [outcome |-> outcome, files |-> [state |-> state, idx |-> idx],
     exc |-> exc, copen |-> copen, cclose |-> cclose,
     mopen |-> mopen, mclose |-> mclose]

\* Mutant: every member of the archive is opened when the archive is.
_get_files_from_zip_eager(loc, f) ==
    LET start == f.state = "unstarted"
        i == IF start THEN 1 ELSE f.idx + 1
    IN IF start /\ loc.corrupt
       THEN Effect("raise", "finished", 0, "BadZipFile", FALSE, FALSE, {}, {})
       ELSE IF i <= Len(loc.entries)
       THEN Effect("yield", "suspended", i, "none", start, FALSE,
                   IF start THEN 1..Len(loc.entries) ELSE {}, {})
       ELSE Effect("stop", "finished", 0, "none", start, TRUE, {},
                   1..Len(loc.entries))

\* Mutant: the archive is opened without a with block and never closed.
_get_files_from_zip_unclosed(loc, f) ==
    LET start == f.state = "unstarted"
        i == IF start THEN 1 ELSE f.idx + 1
        closing == IF start THEN {} ELSE {f.idx}
    IN IF start /\ loc.corrupt
       THEN Effect("raise", "finished", 0, "BadZipFile", FALSE, FALSE, {}, {})
       ELSE IF i <= Len(loc.entries)
       THEN Effect("yield", "suspended", i, "none", start, FALSE, {i}, closing)
       ELSE Effect("stop", "finished", 0, "none", start, FALSE, {}, closing)

\* Mutant: the member's with block is left before the yield.
_get_files_from_zip_early_close(loc, f) ==
    LET start == f.state = "unstarted"
        i == IF start THEN 1 ELSE f.idx + 1
    IN IF start /\ loc.corrupt
       THEN Effect("raise", "finished", 0, "BadZipFile", FALSE, FALSE, {}, {})
       ELSE IF i <= Len(loc.entries)
       THEN Effect("yield", "suspended", i, "none", start, FALSE, {}, {})
       ELSE Effect("stop", "finished", 0, "none", start, TRUE, {}, {})

\* _get_files_from_zip: every namelist entry, each opened in its own
\* with block inside the archive's with block.
_get_files_from_zip(loc, f) ==
    LET start == f.state = "unstarted"
        i == IF start THEN 1 ELSE f.idx + 1
        closing == IF start THEN {} ELSE {f.idx}
    IN IF start /\ loc.corrupt
       THEN Effect("raise", "finished", 0, "BadZipFile", FALSE, FALSE, {}, {})
       ELSE IF i <= Len(loc.entries)
       THEN Effect("yield", "suspended", i, "none", start, FALSE, {i}, closing)
       ELSE Effect("stop", "finished", 0, "none", start, TRUE, {}, closing)

\* Mutant: every regular file is yielded, extracted or not.
_get_files_from_tar_unchecked(loc, f) ==
    LET start == f.state = "unstarted"
        from == IF start THEN 1 ELSE f.idx + 1
        rest == {k \in from..Len(loc.entries) : loc.entries[k].isfile}
    IN IF start /\ loc.corrupt
       THEN Effect("raise", "finished", 0, "ReadError", FALSE, FALSE, {}, {})
       ELSE IF rest # {}
       THEN LET i == CHOOSE k \in rest : \A m \in rest : k <= m
            IN Effect("yield", "suspended", i, "none", start, FALSE, {}, {})
       ELSE Effect("stop", "finished", 0, "none", start, TRUE, {}, {})

\* _get_files_from_tar: regular files whose extractfile returns a stream;
\* the stream is a view of the archive's own handle.
_get_files_from_tar(loc, f) ==
    LET start == f.state = "unstarted"
        from == IF start THEN 1 ELSE f.idx + 1
        rest == {k \in from..Len(loc.entries) :
                    loc.entries[k].isfile /\ loc.entries[k].extractable}
    IN IF start /\ loc.corrupt
       THEN Effect("raise", "finished", 0, "ReadError", FALSE, FALSE, {}, {})
       ELSE IF rest # {}
       THEN LET i == CHOOSE k \in rest : \A m \in rest : k <= m
            IN Effect("yield", "suspended", i, "none", start, FALSE, {}, {})
       ELSE Effect("stop", "finished", 0, "none", start, TRUE, {}, {})

\* The .txt arm of _open_files_at_location: the location is its own member.
TextFileArm(loc, f) ==
    IF f.state = "unstarted"
    THEN IF loc.corrupt
         THEN Effect("raise", "finished", 0, "OSError", FALSE, FALSE, {}, {})
         ELSE Effect("yield", "suspended", 1, "none", TRUE, FALSE, {}, {})
    ELSE Effect("stop", "finished", 0, "none", FALSE, TRUE, {}, {})

Kind(loc) ==
    LET extension == get_file_ext(Basename(loc.path))
    IN IF extension = ".zip" THEN "zip"
       ELSE IF extension = ".txt" THEN "txt"
       ELSE IF TAR_MATCH(Basename(loc.path)) THEN "tar"
       ELSE "skip"

\* Mutant: a location of an unknown kind is an error instead of a skip.
_open_files_at_location_strict(loc, f) ==
    IF Kind(loc) = "zip" THEN _get_files_from_zip(loc, f)
    ELSE IF Kind(loc) = "txt" THEN TextFileArm(loc, f)
    ELSE IF Kind(loc) = "tar" THEN _get_files_from_tar(loc, f)
    ELSE Effect("raise", "finished", 0, "ValueError", FALSE, FALSE, {}, {})

\* next() on the generator _open_files_at_location(loc).
_open_files_at_location(loc, f) ==
    IF Kind(loc) = "zip" THEN _get_files_from_zip(loc, f)
    ELSE IF Kind(loc) = "txt" THEN TextFileArm(loc, f)
    ELSE IF Kind(loc) = "tar" THEN _get_files_from_tar(loc, f)
    ELSE Effect("stop", "finished", 0, "none", FALSE, FALSE, {}, {})

\* Mutant: the member name keeps its directory components.
YieldedFullPath(loc, i) ==
    [file_name |-> IF Kind(loc) = "txt" THEN Concat(loc.path)
                   ELSE Concat(loc.entries[i].path),
     entry |-> i,
     file |-> [content |-> loc.entries[i].content,
               binary |-> Kind(loc) # "txt",
               pos |-> 0]]

\* Mutant: the reader has read the member before yielding its stream.
YieldedConsumed(loc, i) ==
    [file_name |-> IF Kind(loc) = "txt" THEN Basename(loc.path)
                   ELSE Basename(loc.entries[i].path),
     entry |-> i,
     file |-> [content |-> loc.entries[i].content,
               binary |-> Kind(loc) # "txt",
               pos |-> Len(loc.entries[i].content)]]

\* The pair a reader yields for entry i of loc: the base name and a stream
\* newly opened on the entry (zip_file.open, tar.extractfile, open).
Yielded(loc, i) ==
    [file_name |-> IF Kind(loc) = "txt" THEN Basename(loc.path)
                   ELSE Basename(loc.entries[i].path),
     entry |-> i,
     file |-> [content |-> loc.entries[i].content,
               binary |-> Kind(loc) # "txt",
               pos |-> 0]]

\* ------------------------------------------------------- load_from_state
Suspended == {"created", "yielded", "yielded_final"}

\* The consumer pulls the next batch: next() on the generator.
Pull ==
    /\ pc \in Suspended
    /\ pc' = CASE pc = "created" -> "for_location"
               [] pc = "yielded" -> "reset"
               [] pc = "yielded_final" -> "done"
    /\ UNCHANGED <<config, loc_idx, files, cur, documents, batches, error,
                   io, built, pfvars, ids, other>>

\* The consumer abandons the stream: the generator is closed at its yield.
Abandon ==
    /\ pc \in Suspended
    /\ pc' = "closed"
    /\ UNCHANGED <<config, loc_idx, files, cur, documents, batches, error,
                   io, built, pfvars, ids, other>>

\* for file_location in self.file_locations: files = _open_files_at_location(..)
NextLocation ==
    /\ pc = "for_location"
    /\ IF loc_idx < Len(file_locations)
       THEN /\ loc_idx' = loc_idx + 1
            /\ files' = [state |-> "unstarted", idx |-> 0]
            /\ pc' = "for_member"
       ELSE /\ pc' = "final"
            /\ UNCHANGED <<loc_idx, files>>
    /\ UNCHANGED <<config, cur, documents, batches, error, io, built, pfvars, ids, other>>

\* for file_name, file in files: one resumption of the reader.
NextMember ==
    /\ pc = "for_member"
    /\ LET loc == file_locations[loc_idx]
           e == _open_files_at_location(loc, files)
       IN /\ files' = e.files
          /\ container_open' =
                (container_open \cup (IF e.copen THEN {loc_idx} ELSE {}))
                    \ (IF e.cclose THEN {loc_idx} ELSE {})
          /\ member_open' =
                (member_open \ {<<loc_idx, k>> : k \in e.mclose})
                    \cup {<<loc_idx, k>> : k \in e.mopen}
          /\ opened' = IF e.copen THEN Append(opened, loc_idx) ELSE opened
          /\ CASE e.outcome = "yield" ->
                    /\ cur' = Yielded(loc, e.files.idx)
                    /\ handed' = Append(handed, <<loc_idx, e.files.idx>>)
                    /\ pc' = "process"
                    /\ error' = error
               [] e.outcome = "stop" ->
                    /\ pc' = "for_location"
                    /\ UNCHANGED <<cur, handed, error>>
               [] e.outcome = "raise" ->
                    /\ pc' = "raised"
                    /\ error' = e.exc
                    /\ UNCHANGED <<cur, handed>>
    /\ UNCHANGED <<config, loc_idx, documents, batches, reads, built, pfvars, ids, other>>

\* list.extend changes the list object in place: every yielded batch that
\* is the same object as the accumulator shows the new contents.
Extended(new_documents) ==
    [k \in 1..Len(batches) |->
        IF batch_ids[k] = acc_id THEN new_documents ELSE batches[k]]

\* Mutant: a member that fails to parse is skipped instead of raising.
ProcessFileSwallows ==
    /\ pc = "process"
    /\ LET r == _process_file(cur.file_name, cur.file)
       IN /\ reads' = IF r.read THEN Append(reads, <<loc_idx, cur.entry>>)
                      ELSE reads
          /\ documents' = documents \o r.docs
          /\ batches' = Extended(documents \o r.docs)
          /\ built' = built \o r.docs
          /\ pc' = "check"
          /\ error' = error
    /\ UNCHANGED <<config, loc_idx, files, cur, container_open,
                   member_open, opened, handed, pfvars, ids, other>>

\* documents.extend(_process_file(file_name, file)). A call that returns
\* after iterating the stream leaves it at its end; a call that raises ends
\* the load, and the frame with the stream is discarded.
ProcessFile ==
    /\ pc = "process"
    /\ LET r == _process_file(cur.file_name, cur.file)
       IN /\ reads' = IF r.read THEN Append(reads, <<loc_idx, cur.entry>>)
                      ELSE reads
          /\ IF r.exc # "none"
             THEN /\ pc' = "raised"
                  /\ error' = r.exc
                  /\ UNCHANGED <<cur, documents, batches, built>>
             ELSE /\ documents' = documents \o r.docs
                  /\ batches' = Extended(documents \o r.docs)
                  /\ built' = built \o r.docs
                  /\ cur' = IF r.read
                            THEN [cur EXCEPT !.file.pos = Len(cur.file.content)]
                            ELSE cur
                  /\ pc' = "check"
                  /\ error' = error
    /\ UNCHANGED <<config, loc_idx, files, container_open,
                   member_open, opened, handed, pfvars, ids, other>>

\* Mutant: the threshold test is > instead of >=.
YieldBatchOffByOne ==
    /\ pc = "check"
    /\ IF Len(documents) > batch_size
       THEN /\ batches' = Append(batches, documents)
            /\ batch_ids' = Append(batch_ids, acc_id)
            /\ pc' = "yielded"
       ELSE /\ pc' = "for_member"
            /\ UNCHANGED <<batches, batch_ids>>
    /\ UNCHANGED <<config, loc_idx, files, cur, documents, error, io, built,
                   pfvars, acc_id, other>>

\* if len(documents) >= self.batch_size: yield documents
YieldBatch ==
    /\ pc = "check"
    /\ IF Len(documents) >= batch_size
       THEN /\ batches' = Append(batches, documents)
            /\ batch_ids' = Append(batch_ids, acc_id)
            /\ pc' = "yielded"
       ELSE /\ pc' = "for_member"
            /\ UNCHANGED <<batches, batch_ids>>
    /\ UNCHANGED <<config, loc_idx, files, cur, documents, error, io, built,
                   pfvars, acc_id, other>>

\* Mutant: the accumulator is not replaced after the yield.
ResetAccumulatorKeeps ==
    /\ pc = "reset"
    /\ pc' = "for_member"
    /\ UNCHANGED <<config, loc_idx, files, cur, documents, batches, error, io,
                   built, pfvars, ids, other>>

\* Mutant: documents.clear() empties the yielded list instead of binding a
\* new one.
ResetAccumulatorClears ==
    /\ pc = "reset"
    /\ documents' = <<>>
    /\ batches' = Extended(<<>>)
    /\ pc' = "for_member"
    /\ UNCHANGED <<config, loc_idx, files, cur, error, io, built,
                   pfvars, ids, other>>

\* documents = []   (on resumption after the yield)
ResetAccumulator ==
    /\ pc = "reset"
    /\ documents' = <<>>
    /\ acc_id' = acc_id + 1
    /\ pc' = "for_member"
    /\ UNCHANGED <<config, loc_idx, files, cur, batches, error, io, built,
                   pfvars, batch_ids, other>>

\* Mutant: the final yield is not guarded by "if documents".
FinalFlushAlways ==
    /\ pc = "final"
    /\ batches' = Append(batches, documents)
    /\ batch_ids' = Append(batch_ids, acc_id)
    /\ pc' = "yielded_final"
    /\ UNCHANGED <<config, loc_idx, files, cur, documents, error, io, built,
                   pfvars, acc_id, other>>

\* if documents: yield documents   (after the last location)
FinalFlush ==
    /\ pc = "final"
    /\ IF documents # <<>>
       THEN /\ batches' = Append(batches, documents)
            /\ batch_ids' = Append(batch_ids, acc_id)
            /\ pc' = "yielded_final"
       ELSE /\ pc' = "done"
            /\ UNCHANGED <<batches, batch_ids>>
    /\ UNCHANGED <<config, loc_idx, files, cur, documents, error, io, built,
                   pfvars, acc_id, other>>

\* Mutant: the readers hold their handles without with blocks.
FinalizeFilesLeaks ==
    /\ pc \in {"closed", "raised"}
    /\ files.state = "suspended"
    /\ files' = [state |-> "closed", idx |-> 0]
    /\ UNCHANGED <<config, pc, loc_idx, cur, documents, batches, error,
                   io, built, pfvars, ids, other>>

\* The reader left suspended by a closed or failed load is finalized:
\* GeneratorExit at its yield leaves the with blocks, closing the handles.
FinalizeFiles ==
    /\ pc \in {"closed", "raised"}
    /\ files.state = "suspended"
    /\ files' = [state |-> "closed", idx |-> 0]
    /\ container_open' = container_open \ {loc_idx}
    /\ member_open' = {m \in member_open : m[1] # loc_idx}
    /\ UNCHANGED <<config, pc, loc_idx, cur, documents, batches, error,
                   opened, handed, reads, built, pfvars, ids, other>>

Next ==
    \/ Pull
    \/ Abandon
    \/ NextLocation
    \/ NextMember
    \/ ProcessFile
    \/ YieldBatch
    \/ ResetAccumulator
    \/ FinalFlush
    \/ FinalizeFiles

Spec == Init /\ [][Next]_vars

\* The runtime finalizes an unreachable generator.
FairSpec == Spec /\ WF_vars(FinalizeFiles)

TypeOK ==
    /\ pc \in {"created", "for_location", "for_member", "process", "check",
               "yielded", "reset", "final", "yielded_final", "done",
               "raised", "closed"}
    /\ loc_idx \in 0..Len(file_locations)
    /\ files.state \in {"none", "unstarted", "suspended", "finished", "closed"}

\* -------------------------------------------- _process_file on its own
LinePool ==
    {<<"h", "\n">>, <<"w">>, <<"a", "\r", "\n">>,
     MetaLine,
     _METADATA_FLAG \o <<"{", "}", " ", "\r", "\n">>,
     _METADATA_FLAG \o JsonLinkAndKey,
     _METADATA_FLAG \o <<"{", "link", "\n">>,
     _METADATA_FLAG \o <<"1", "\n">>,
     <<" ">> \o MetaLine,
     <<"#", "D", "A", "\n">>,
     <<"0xC3", "0xA9", "\n">>,
     <<"0xFF", "\n">>}

MemberNames == {<<"a", ".txt">>, <<"b", ".pdf">>, <<"README">>}

\* No connector: load_from_state is never called.
LoadIdle ==
    /\ file_locations = <<>>
    /\ batch_size = 1
    /\ pc = "unused"
    /\ loc_idx = 0
    /\ files = NoFiles
    /\ cur = NoCur
    /\ documents = <<>>
    /\ batches = <<>>
    /\ error = "none"
    /\ container_open = {}
    /\ member_open = {}
    /\ opened = <<>>
    /\ handed = <<>>
    /\ reads = <<>>
    /\ built = <<>>
    /\ acc_id = 1
    /\ batch_ids = <<>>
    /\ invocation = 1
    /\ prev_batches = <<>>
    /\ prev_pc = "none"
    /\ cred_result = "uncalled"

PFInit ==
    /\ LoadIdle
    /\ QAIdle
    /\ pf_pc = "ready"
    /\ pf_name \in MemberNames
    /\ pf_file \in [content : {Concat(ls) : ls \in SeqsUpTo(LinePool, MaxLines)},
                    binary : BOOLEAN, pos : {0}]
    /\ pf_result = NoResult

\* One call _process_file(pf_name, pf_file).
CallProcessFile ==
    /\ pf_pc = "ready"
    /\ pf_result' = _process_file(pf_name, pf_file)
    /\ pf_pc' = "returned"
    /\ UNCHANGED <<config, pc, loc_idx, files, cur, documents, batches, error,
                   io, built, pf_name, pf_file, ids, other>>

PFNext == CallProcessFile

SpecPF == PFInit /\ [][PFNext]_vars

\* ------------------------------------ repeated loads, load_credentials
Ended == {"done", "closed", "raised"}

\* Mutant: the accumulator is an attribute of the connector, kept across
\* calls.
ReinvokeKeeps ==
    /\ pc \in Ended
    /\ files.state # "suspended"
    /\ invocation < MaxInvocations
    /\ invocation' = invocation + 1
    /\ prev_batches' = batches
    /\ prev_pc' = pc
    /\ pc' = "created"
    /\ loc_idx' = 0
    /\ files' = NoFiles
    /\ cur' = NoCur
    /\ batch_ids' = <<>>
    /\ batches' = <<>>
    /\ error' = "none"
    /\ opened' = <<>>
    /\ handed' = <<>>
    /\ reads' = <<>>
    /\ built' = <<>>
    /\ UNCHANGED <<config, documents, acc_id, container_open, member_open,
                   pfvars, cred_result, qavars>>

\* load_from_state is called again on the same connector once the earlier
\* generator is finished, failed or closed. The call makes a new generator
\* frame: its locals (documents, the loop positions, files) are new, and
\* only self.file_locations and self.batch_size are carried over.
Reinvoke ==
    /\ pc \in Ended
    /\ files.state # "suspended"
    /\ invocation < MaxInvocations
    /\ invocation' = invocation + 1
    /\ prev_batches' = batches
    /\ prev_pc' = pc
    /\ pc' = "created"
    /\ loc_idx' = 0
    /\ files' = NoFiles
    /\ cur' = NoCur
    /\ documents' = <<>>
    /\ acc_id' = acc_id + 1
    /\ batch_ids' = <<>>
    /\ batches' = <<>>
    /\ error' = "none"
    /\ opened' = <<>>
    /\ handed' = <<>>
    /\ reads' = <<>>
    /\ built' = <<>>
    /\ UNCHANGED <<config, container_open, member_open, pfvars, cred_result,
                   qavars>>

CredentialMaps == {"empty", "api_key", "user_password"}

\* Mutant: the credentials configure the connector.
LoadCredentialsConfigures ==
    /\ pc \in Suspended \cup Ended
    /\ \E credentials \in CredentialMaps :
          /\ cred_result' = "None"
          /\ batch_size' = IF credentials = "api_key" THEN 1 ELSE batch_size
    /\ UNCHANGED <<file_locations, pc, loc_idx, files, cur, documents, batches,
                   error, io, built, pfvars, ids, invocation, prev_batches,
                   prev_pc, qavars>>

\* def load_credentials(self, credentials): pass
\* The caller can call it whenever the generator is not executing.
LoadCredentials ==
    /\ pc \in Suspended \cup Ended
    /\ \E credentials \in CredentialMaps :
          cred_result' = "None"
    /\ UNCHANGED <<config, pc, loc_idx, files, cur, documents, batches,
                   error, io, built, pfvars, ids, invocation, prev_batches,
                   prev_pc, qavars>>

ReInit ==
    /\ file_locations \in SeqsUpTo(LocationUniverse, MaxReLocations)
    /\ batch_size \in 1..MaxBatchSize
    /\ LoadCreated
    /\ PFIdle
    /\ QAIdle

ReNext ==
    \/ Next
    \/ Reinvoke
    \/ LoadCredentials

SpecRe == ReInit /\ [][ReNext]_vars

\* ------------------------------------------------------ answer_question
\* answer_question does not touch a connector.
connector == <<config, pc, loc_idx, files, cur, documents, batches, error,
               io, built, pfvars, ids, invocation, prev_batches, prev_pc,
               cred_result>>

\* NUM_GENERATIVE_AI_INPUT_DOCS is set in danswer.configs.app_configs; the
\* model fixes a small value.
NUM_GENERATIVE_AI_INPUT_DOCS == 2

\* question.offset is an optional int; nothing in answer_question restricts
\* its sign.
Offsets == {None} \cup {Some(n) : n \in (0 - MaxOffset)..MaxOffset}

QAInit ==
    /\ LoadIdle
    /\ PFIdle
    /\ qa_pc = "start"
    /\ question \in [offset : Offsets,
                      use_keyword : {None, Some(TRUE), Some(FALSE)}]
    /\ predicted = NoIntent
    /\ ranked_chunks = <<>>
    /\ unranked_chunks = <<>>
    /\ model_raises = FALSE
    /\ model_calls = <<>>
    /\ qa_out = NoResponse

\* offset_count = question.offset if question.offset is not None else 0
offset_count == IF question.offset # None THEN question.offset[1] ELSE 0

\* chunk_offset = offset_count * NUM_GENERATIVE_AI_INPUT_DOCS
chunk_offset == offset_count * NUM_GENERATIVE_AI_INPUT_DOCS

\* if use_keyword is None: use_keyword = predicted_search == KEYWORD
use_keyword ==
    IF question.use_keyword = None THEN predicted.search = "keyword"
    ELSE question.use_keyword[1]

\* A Python slice index brought into 0..len.
SliceIndex(i, len) ==
    IF i < 0 THEN (IF len + i < 0 THEN 0 ELSE len + i)
    ELSE IF i > len THEN len ELSE i

\* seq[start : stop] as Python evaluates it, negative indices included.
PySlice(seq, start, stop) ==
    LET lo == SliceIndex(start, Len(seq))
        hi == SliceIndex(stop, Len(seq))
    IN IF lo < hi THEN SubSeq(seq, lo + 1, hi) ELSE <<>>

\* One entry of the result per chunk, in order.
chunks_to_search_docs(chunks) ==
    [k \in 1..Len(chunks) |-> [chunk |-> chunks[k]]]

QAResponse(answer, quotes, top_ranked_docs, lower_ranked_docs, predicted_flow, predicted_search, error_msg) ==
    [kind |-> "response", answer |-> answer, quotes |-> quotes,
     top_ranked_docs |-> top_ranked_docs,
     lower_ranked_docs |-> lower_ranked_docs,
     predicted_flow |-> predicted_flow,
     predicted_search |-> predicted_search,
     error_msg |-> error_msg]

\* predicted_search, predicted_flow = query_intent(query)
QueryIntent ==
    /\ qa_pc = "start"
    /\ predicted' \in [search : {"keyword", "semantic"},
                        flow : {"search", "question-answer"}]
    /\ qa_pc' = "retrieve"
    /\ UNCHANGED <<question, ranked_chunks, unranked_chunks, model_raises,
                   model_calls, qa_out, connector>>

\* Keyword or semantic retrieval. A result that is None and one that is an
\* empty list are both the empty sequence: line 46 treats them alike.
Retrieve ==
    /\ qa_pc = "retrieve"
    /\ \E n \in 0..MaxChunks, u \in 0..MaxUnranked :
          /\ ranked_chunks' = [k \in 1..n |-> k]
          /\ unranked_chunks' =
                IF use_keyword THEN <<>> ELSE [k \in 1..u |-> n + k]
    /\ qa_pc' = "retrieved"
    /\ UNCHANGED <<question, predicted, model_raises, model_calls, qa_out,
                   connector>>

\* if not ranked_chunks: return QAResponse(answer=None, ...)
CheckRanked ==
    /\ qa_pc = "retrieved"
    /\ IF ranked_chunks = <<>>
       THEN /\ qa_out' = QAResponse(None, None, None, None, predicted.flow,
                                    predicted.search, None)
            /\ qa_pc' = "returned"
       ELSE /\ qa_pc' = "check_offset"
            /\ qa_out' = qa_out
    /\ UNCHANGED <<question, predicted, ranked_chunks, unranked_chunks,
                   model_raises, model_calls, connector>>

\* if chunk_offset >= len(ranked_chunks): raise ValueError(...)
CheckOffset ==
    /\ qa_pc = "check_offset"
    /\ IF chunk_offset >= Len(ranked_chunks)
       THEN /\ qa_out' = [kind |-> "raised", exc |-> "ValueError"]
            /\ qa_pc' = "raised"
       ELSE /\ qa_pc' = "ask"
            /\ qa_out' = qa_out
    /\ UNCHANGED <<question, predicted, ranked_chunks, unranked_chunks,
                   model_raises, model_calls, connector>>

\* What a call of qa_model.answer_question does: it raises an Exception,
\* or returns an answer and quotes, either of which may be None.
ModelOutcomes ==
    [raises : {TRUE}, answer : {None}, quotes : {None}]
      \cup [raises : {FALSE}, answer : {None, Some("answer")},
                quotes : {None, Some("quotes")}]

\* Mutant: the exception of the model call is not caught.
AskModelPropagates ==
    /\ qa_pc = "ask"
    /\ \E outcome \in ModelOutcomes :
          /\ model_calls' =
                Append(model_calls,
                       PySlice(ranked_chunks, chunk_offset,
                               chunk_offset + NUM_GENERATIVE_AI_INPUT_DOCS))
          /\ model_raises' = outcome.raises
          /\ IF outcome.raises
             THEN /\ qa_out' = [kind |-> "raised", exc |-> "Exception"]
                  /\ qa_pc' = "raised"
             ELSE /\ qa_out' = QAResponse(outcome.answer, outcome.quotes,
                               Some(chunks_to_search_docs(ranked_chunks)),
                               Some(chunks_to_search_docs(unranked_chunks)),
                               predicted.flow, predicted.search, None)
                  /\ qa_pc' = "returned"
    /\ UNCHANGED <<question, predicted, ranked_chunks, unranked_chunks,
                   connector>>

\* try: answer, quotes = qa_model.answer_question(query, ranked_chunks[..])
\* except Exception as e: answer, quotes = None, None; error_msg = ...
\* return QAResponse(...)
AskModel ==
    /\ qa_pc = "ask"
    /\ \E outcome \in ModelOutcomes :
          /\ model_calls' =
                Append(model_calls,
                       PySlice(ranked_chunks, chunk_offset,
                               chunk_offset + NUM_GENERATIVE_AI_INPUT_DOCS))
          /\ model_raises' = outcome.raises
          /\ qa_out' =
                QAResponse(IF outcome.raises THEN None ELSE outcome.answer,
                           IF outcome.raises THEN None ELSE outcome.quotes,
                           Some(chunks_to_search_docs(ranked_chunks)),
                           Some(chunks_to_search_docs(unranked_chunks)),
                           predicted.flow, predicted.search,
                           IF outcome.raises
                           THEN Some("Error occurred in call to LLM")
                           ELSE None)
    /\ qa_pc' = "returned"
    /\ UNCHANGED <<question, predicted, ranked_chunks, unranked_chunks,
                   connector>>

QANext ==
    \/ QueryIntent
    \/ Retrieve
    \/ CheckRanked
    \/ CheckOffset
    \/ AskModel

SpecQA == QAInit /\ [][QANext]_vars

\* ================================================================ claims
\* What the load is expected to deliver, read off the file system: the
\* members of each location in container order, locations in list order.
Members(loc) ==
    LET all == [k \in 1..Len(loc.entries) |-> k]
    IN CASE Kind(loc) = "zip" -> all
         [] Kind(loc) = "tar" ->
                SelectSeq(all, LAMBDA k : loc.entries[k].isfile
                                          /\ loc.entries[k].extractable)
         [] Kind(loc) = "txt" -> <<1>>
         [] OTHER -> <<>>

DocumentsOf(loc) ==
    Concat([j \in 1..Len(Members(loc)) |->
              LET y == Yielded(loc, Members(loc)[j])
              IN _process_file(y.file_name, y.file).docs])

ExpectedDocuments(locs) ==
    Concat([i \in 1..Len(locs) |-> DocumentsOf(locs[i])])

Sizes(bs) == [k \in 1..Len(bs) |-> Len(bs[k])]

\* C1: every yielded batch has at most batch_size Documents and every batch
\* but the last exactly batch_size; the accumulator is carried over location
\* boundaries, so a .txt location followed by a zip with two Documents and
\* batch_size 2 yields batches of sizes [2, 1].
C1_BatchSizes ==
    /\ \A k \in 1..Len(batches) : Len(batches[k]) <= batch_size
    /\ \A k \in 1..(Len(batches) - 1) : Len(batches[k]) = batch_size
    /\ pc \notin {"yielded_final", "done", "closed"} =>
          \A k \in 1..Len(batches) : Len(batches[k]) = batch_size
    /\ (file_locations = <<TxtMeta, ZipSpec>> /\ batch_size = 2 /\ pc = "done")
          => Sizes(batches) = <<2, 1>>

C1_Witness ==
    /\ file_locations = <<TxtMeta, ZipSpec>>
    /\ batch_size = 2
    /\ pc = "done"
    /\ Len(batches) = 2

\* C2: no yielded batch is empty; a load that produces no Document yields
\* no batch, and a total that is a multiple of batch_size yields exactly
\* total / batch_size batches (no trailing empty batch).
C2_NoEmptyBatch ==
    /\ \A k \in 1..Len(batches) : Len(batches[k]) >= 1
    /\ (pc = "done" /\ built = <<>>) => batches = <<>>
    /\ (pc = "done" /\ Len(built) % batch_size = 0)
          => Len(batches) * batch_size = Len(built)

C2_Witness ==
    /\ pc = "done"
    /\ file_locations = <<Unsupported, ZipOnlyPdf>>
    /\ built = <<>>
    /\ batches = <<>>

\* C3: when the load ends without an error, the batches concatenated in
\* yield order are exactly the Documents of the locations in list order and
\* of their members in container order; during the load the delivered
\* Documents are a prefix of the Documents built so far.
C3_AllDeliveredInOrder ==
    /\ Len(Concat(batches)) <= Len(built)
    /\ Concat(batches) = SubSeq(built, 1, Len(Concat(batches)))
    /\ pc \in {"yielded_final", "done"} =>
          Concat(batches) = ExpectedDocuments(file_locations)

C3_Witness ==
    /\ pc = "done"
    /\ Len(file_locations) >= 2
    /\ Len(batches) >= 2
    /\ Len(batches[Len(batches)]) < batch_size
    /\ Concat(batches) = ExpectedDocuments(file_locations)

\* The member of the call as a reader of its content sees it.
PFText ==
    IF pf_file.binary THEN Utf8Decode(pf_file.content)
    ELSE [ok |-> TRUE, val |-> pf_file.content]

\* Length of the first line of t, terminator included.
FirstLineLen(t) ==
    LET nl == {i \in 1..Len(t) : t[i] = "\n"}
    IN IF nl = {} THEN Len(t)
       ELSE CHOOSE k \in nl : \A m \in nl : k <= m

PFFirstLine == SubSeq(PFText.val, 1, FirstLineLen(PFText.val))

PFHasSidecar == StartsWith(PFFirstLine, _METADATA_FLAG)

PFSidecar ==
    JsonLoads(Strip(SubSeq(PFFirstLine, Len(_METADATA_FLAG) + 1,
                           Len(PFFirstLine))))

PFAccepted ==
    /\ pf_pc = "returned"
    /\ get_file_ext(pf_name) \in VALID_FILE_EXTENSIONS
    /\ PFText.ok

\* C4: a member with an accepted extension whose first line starts with the
\* marker and carries a JSON object gives exactly one Document with one
\* Section; its link is the object's link value ("" without a link key) and
\* its text is everything after the first line, terminators included.
C4_SidecarFirstLine ==
    (PFAccepted /\ PFHasSidecar /\ PFSidecar.ok /\ PFSidecar.isdict) =>
        /\ pf_result.exc = "none"
        /\ Len(pf_result.docs) = 1
        /\ Len(pf_result.docs[1].sections) = 1
        /\ pf_result.docs[1].sections[1].link =
              (IF "link" \in DOMAIN PFSidecar.obj
               THEN PFSidecar.obj["link"] ELSE "")
        /\ pf_result.docs[1].sections[1].text =
              SubSeq(PFText.val, FirstLineLen(PFText.val) + 1, Len(PFText.val))

C4_Witness ==
    /\ pf_pc = "returned"
    /\ pf_name = <<"a", ".txt">>
    /\ pf_file.content = MetaLine \o <<"h", "\n">>
    /\ Len(pf_result.docs) = 1
    /\ pf_result.docs[1].sections[1].link = "http://x"
    /\ pf_result.docs[1].sections[1].text = <<"h", "\n">>

\* C5: a member with an accepted extension whose first line does not start
\* with the marker gives one Document whose Section has link "" and the
\* whole content as text; a marker on a later line is ordinary content.
C5_NoSidecar ==
    (PFAccepted /\ ~PFHasSidecar) =>
        /\ pf_result.exc = "none"
        /\ Len(pf_result.docs) = 1
        /\ Len(pf_result.docs[1].sections) = 1
        /\ pf_result.docs[1].sections[1].link = ""
        /\ pf_result.docs[1].sections[1].text = PFText.val

C5_Witness ==
    /\ pf_pc = "returned"
    /\ pf_name = <<"a", ".txt">>
    /\ pf_file.content = <<"h", "\n">> \o MetaLine
    /\ Len(pf_result.docs) = 1
    /\ pf_result.docs[1].sections[1].link = ""
    /\ pf_result.docs[1].sections[1].text = <<"h", "\n">> \o MetaLine

Ids(docs) == [k \in 1..Len(docs) |-> docs[k].id]

\* Base names of the members of loc that have an accepted extension.
AcceptedNames(loc) ==
    SelectSeq([j \in 1..Len(Members(loc)) |->
                  IF Kind(loc) = "txt" THEN Basename(loc.path)
                  ELSE Basename(loc.entries[Members(loc)[j]].path)],
              LAMBDA n : get_file_ext(n) \in VALID_FILE_EXTENSIONS)

HandedAt(i) == SelectSeq(handed, LAMBDA h : h[1] = i)

\* C6: a zip location hands every namelist entry over once, in namelist
\* order; the delivered Documents are the entries with an accepted
\* extension, each under its base name, and a rejected entry does not stop
\* the traversal: a.txt, b.pdf, notes/c.txt gives a.txt and c.txt.
C6_ZipTraversal ==
    /\ (pc = "for_location" /\ loc_idx >= 1
            /\ Kind(file_locations[loc_idx]) = "zip"
            /\ ~file_locations[loc_idx].corrupt) =>
          HandedAt(loc_idx) =
              [k \in 1..Len(file_locations[loc_idx].entries) |-> <<loc_idx, k>>]
    /\ pc \in {"yielded_final", "done"} =>
          Ids(Concat(batches)) =
              Concat([i \in 1..Len(file_locations) |->
                         AcceptedNames(file_locations[i])])
    /\ (pc = "done" /\ file_locations = <<ZipSpec>>) =>
          Ids(Concat(batches)) = << <<"a", ".txt">>, <<"c", ".txt">> >>

C6_Witness ==
    /\ pc = "done"
    /\ file_locations = <<ZipSpec>>
    /\ Len(Concat(batches)) = 2
    /\ handed = << <<1, 1>>, <<1, 2>>, <<1, 3>> >>

\* The exception the current step of the load is about to raise, if any.
Failing ==
    IF pc = "process"
    THEN _process_file(cur.file_name, cur.file).exc
    ELSE IF pc = "for_member" /\ files.state = "unstarted"
            /\ file_locations[loc_idx].corrupt
            /\ Kind(file_locations[loc_idx]) # "skip"
    THEN "corrupt"
    ELSE "none"

FailureRaises ==
    Failing # "none" =>
        /\ pc' = "raised"
        /\ error' # "none"
        /\ batches' = batches
        /\ documents' = documents

RaisedIsFinal ==
    pc = "raised" =>
        /\ pc' = "raised"
        /\ error' = error
        /\ batches' = batches

\* C7: a corrupt container, an undecodable member or a malformed sidecar
\* ends the load with the error at the consumer; the Documents in the
\* accumulator at that moment are in no batch, and no batch is yielded or
\* changed afterwards.
C7_FatalError ==
    /\ [](pc = "raised" =>
            /\ error # "none"
            /\ built = Concat(batches) \o documents)
    /\ [][FailureRaises]_vars
    /\ [][RaisedIsFinal]_vars

C7_Witness ==
    /\ pc = "raised"
    /\ error = "BadZipFile"
    /\ loc_idx = 3
    /\ documents # <<>>
    /\ batches # <<>>

UnsupportedLocation(loc) ==
    /\ get_file_ext(Basename(loc.path)) \notin {".zip", ".txt"}
    /\ ~TAR_MATCH(Basename(loc.path))

SkipStep ==
    (pc = "for_member" /\ UnsupportedLocation(file_locations[loc_idx])) =>
        /\ pc' = "for_location"
        /\ UNCHANGED <<documents, batches, error, io, built>>

\* C8: a location that is neither .zip, .txt nor a tar name hands over no
\* member and raises nothing: the load moves on to the next location with
\* the accumulator as it was, and the Documents of the other locations are
\* delivered in order.
C8_UnsupportedLocationSkipped ==
    /\ [][SkipStep]_vars
    /\ [](pc \in {"yielded_final", "done"} =>
            Concat(batches) =
                ExpectedDocuments(SelectSeq(file_locations,
                                  LAMBDA l : ~UnsupportedLocation(l))))

C8_Witness ==
    /\ pc = "done"
    /\ file_locations = <<TxtMeta, Unsupported, TxtMeta>>
    /\ batch_size = 2
    /\ Sizes(batches) = <<2>>

Last(q) == q[Len(q)]

NoIoWhileSuspended ==
    pc \in Suspended \cup {"done", "raised", "closed"} =>
        UNCHANGED <<opened, handed, reads>>

\* C9: nothing is opened or read before the first pull, nor while the
\* generator is suspended or finished; when a batch is yielded from the
\* loop, the members read are the ones that gave the Documents yielded so
\* far, and the reader stands at the member read last.
C9_Lazy ==
    /\ [](pc = "created" =>
            /\ opened = <<>> /\ handed = <<>> /\ reads = <<>>
            /\ container_open = {} /\ member_open = {})
    /\ [][NoIoWhileSuspended]_vars
    /\ [](pc = "yielded" =>
            /\ Len(reads) = Len(batches) * batch_size
            /\ Len(reads) = Len(built)
            /\ Last(reads) = Last(handed)
            /\ Last(handed) = <<loc_idx, files.idx>>
            /\ Last(opened) = loc_idx
            /\ container_open \subseteq {loc_idx}
            /\ member_open \subseteq {<<loc_idx, files.idx>>})

C9_Witness ==
    /\ pc = "yielded"
    /\ batch_size = 1
    /\ file_locations = <<ZipSpec, TxtMeta>>
    /\ handed = << <<1, 1>> >>
    /\ reads = << <<1, 1>> >>
    /\ opened = <<1>>

Released == container_open = {} /\ member_open = {}

\* C10: the container of a location is opened once, before any of its
\* members is handed over, and is open only while that location is being
\* traversed; it is released when the traversal of the location completes
\* and, after the consumer closes the stream early, when the suspended
\* reader is finalized.
C10_HandleScope ==
    /\ [](\A i \in 1..Len(file_locations) :
            /\ Cardinality({k \in 1..Len(opened) : opened[k] = i}) <= 1
            /\ HandedAt(i) # <<>> => \E k \in 1..Len(opened) : opened[k] = i)
    /\ [](container_open \subseteq {loc_idx})
    /\ [](pc \in {"for_location", "final", "yielded_final", "done"} => Released)
    /\ [](pc = "done" =>
            opened = SelectSeq([i \in 1..Len(file_locations) |-> i],
                        LAMBDA i : ~UnsupportedLocation(file_locations[i])))
    /\ (pc = "closed") ~> Released

C10_Witness ==
    /\ pc = "closed"
    /\ files.state = "closed"
    /\ Released
    /\ Kind(file_locations[loc_idx]) = "zip"
    /\ cur.entry < Len(file_locations[loc_idx].entries)
    /\ opened # <<>>

IsPrefix(a, b) == Len(a) <= Len(b) /\ a = SubSeq(b, 1, Len(a))

\* A call of load_from_state starts a new generator.
ReinvokeStep == invocation' # invocation

FreshStart ==
    ReinvokeStep =>
        /\ pc' = "created"
        /\ loc_idx' = 0
        /\ documents' = <<>>
        /\ batches' = <<>>
        /\ config' = config

SameBatches ==
    invocation >= 2 =>
        /\ IsPrefix(batches, prev_batches) \/ IsPrefix(prev_batches, batches)
        /\ (IsPrefix(batches, prev_batches) /\ batches # prev_batches)
              => pc \notin {"yielded_final", "done", "raised"}
        /\ (pc \in Ended /\ prev_pc = pc /\ pc # "closed")
              => batches = prev_batches
        /\ prev_pc = "raised" => pc \notin {"yielded_final", "done"}
        /\ pc = "raised" => prev_pc # "done"
        /\ pc \in {"yielded_final", "done"}
              => Concat(batches) = ExpectedDocuments(file_locations)

\* C11: every call of load_from_state starts at the first location with an
\* empty accumulator and the same configuration, however the earlier call
\* ended (finished, abandoned, failed); on the same file system the batches
\* of two calls agree one by one: a call that finishes or fails yields every
\* batch the earlier call yielded, two calls that both finish (or both fail)
\* yield the same sequence, and a finished call delivers exactly the
\* Documents of the locations, with nothing left over from the earlier call.
C11_Stateless == [][FreshStart]_vars /\ []SameBatches

C11_Witness ==
    /\ invocation = 2
    /\ prev_pc = "closed"
    /\ Len(prev_batches) = 1
    /\ pc = "done"
    /\ Len(batches) = 2
    /\ batches[1] = prev_batches[1]

\* A sequence cut into consecutive runs of n, the last one possibly shorter.
RECURSIVE Chunks(_, _)
Chunks(seq, n) ==
    IF seq = <<>> THEN <<>>
    ELSE IF Len(seq) <= n THEN <<seq>>
    ELSE <<SubSeq(seq, 1, n)>> \o Chunks(SubSeq(seq, n + 1, Len(seq)), n)

\* A call of load_credentials that returns for the first time.
CredentialsFrame ==
    cred_result' # cred_result =>
        /\ cred_result' = "None"
        /\ UNCHANGED <<file_locations, batch_size>>
        /\ UNCHANGED io
        /\ UNCHANGED <<pc, loc_idx, files, cur, documents, batches, error,
                       built, ids, invocation, prev_batches, prev_pc>>

CredentialsNeutral ==
    /\ cred_result \in {"uncalled", "None"}
    /\ pc = "done" =>
          batches = Chunks(ExpectedDocuments(file_locations), batch_size)

\* C12: load_credentials returns None for every credential mapping, opens,
\* closes and reads nothing, and leaves file_locations, batch_size and the
\* state of a load in progress as they were; a load that finishes yields
\* the Documents of the locations cut into runs of batch_size whether or
\* not load_credentials was called before it or during it.
C12_CredentialsNoOp == [][CredentialsFrame]_vars /\ []CredentialsNeutral

C12_Witness ==
    /\ cred_result = "None"
    /\ invocation = 2
    /\ pc = "done"
    /\ batch_size = 2
    /\ Len(batches) = 2
    /\ batches = Chunks(ExpectedDocuments(file_locations), batch_size)

\* Every batch yielded so far is still there with the same contents.
BatchesFrozen ==
    /\ Len(batches') >= Len(batches)
    /\ \A k \in 1..Len(batches) : batches'[k] = batches[k]

OwnedBatches ==
    /\ Len(batch_ids) = Len(batches)
    /\ \A j, k \in 1..Len(batch_ids) : j # k => batch_ids[j] # batch_ids[k]
    /\ pc \in {"for_location", "for_member", "process", "check", "final"}
          => \A k \in 1..Len(batch_ids) : batch_ids[k] # acc_id
    /\ IsPrefix(Concat(batches), built)

\* C13: no step of the load changes or removes a batch already yielded;
\* the yielded lists are pairwise different objects, the list the load
\* appends to is none of them from the moment it resumes after a yield,
\* and each Document built is in at most one batch (the batches laid end
\* to end are a prefix of the Documents built).
C13_YieldedBatchesFrozen == [][BatchesFrozen]_vars /\ []OwnedBatches

C13_Witness ==
    /\ Len(batches) = 2
    /\ pc = "check"
    /\ Len(documents) = 1
    /\ Len(built) = Len(batches[1]) + Len(batches[2]) + 1
    /\ acc_id = 3

IsTar(i) == Kind(file_locations[i]) = "tar"

\* The location at index i has been traversed to its end.
Traversed(i) ==
    \/ loc_idx > i
    \/ loc_idx = i /\ pc \in {"for_location", "final", "yielded_final", "done"}

\* C14: of a tar location only entries that are regular files and whose
\* extraction gives a stream are handed over and read, in archive order;
\* a directory entry and a regular file without a stream are passed over,
\* the entries after them are still handed over, and the traversal of a
\* tar location that opens does not end in an error.
C14_TarRegularFilesOnly ==
    /\ \A n \in 1..Len(handed) :
          IsTar(handed[n][1]) =>
             LET e == file_locations[handed[n][1]].entries[handed[n][2]]
             IN e.isfile /\ e.extractable
    /\ \A n \in 1..Len(reads) :
          IsTar(reads[n][1]) =>
             LET e == file_locations[reads[n][1]].entries[reads[n][2]]
             IN e.isfile /\ e.extractable
    /\ \A i \in 1..Len(file_locations) :
          (IsTar(i) /\ Traversed(i)) =>
             LET loc == file_locations[i]
                 all == [k \in 1..Len(loc.entries) |-> k]
             IN HandedAt(i) =
                  [n \in 1..Len(HandedAt(i)) |->
                     <<i, SelectSeq(all, LAMBDA k : loc.entries[k].isfile
                                       /\ loc.entries[k].extractable)[n]>>]
                /\ Len(HandedAt(i)) =
                     Cardinality({k \in 1..Len(loc.entries) :
                        loc.entries[k].isfile /\ loc.entries[k].extractable})
    /\ (pc = "raised" /\ IsTar(loc_idx)) => file_locations[loc_idx].corrupt

C14_Witness ==
    /\ pc = "done"
    /\ file_locations = <<TarMixed>>
    /\ handed = << <<1, 2>>, <<1, 4>> >>
    /\ Ids(built) = << <<"f", ".txt">> >>
    /\ error = "none"

\* The path of the member at entry k of location i.
MemberPath(i, k) ==
    IF Kind(file_locations[i]) = "txt" THEN file_locations[i].path
    ELSE file_locations[i].entries[k].path

WellFormed(doc) ==
    /\ Len(doc.sections) = 1
    /\ doc.source = "file"
    /\ doc.semantic_identifier = doc.id
    /\ doc.metadata = EmptyMap
    /\ DOMAIN doc =
          {"id", "sections", "source", "semantic_identifier", "metadata"}

\* A member that gives a Document gives one, named by its base name.
NamedByMember ==
    built' # built =>
        /\ Len(built') = Len(built) + 1
        /\ Last(built').id = Basename(MemberPath(loc_idx, cur.entry))

\* C15: every Document built, and so every Document of every batch, has
\* one Section, source "file", a semantic identifier equal to its id and
\* an empty metadata mapping, whatever the member's sidecar holds; its id
\* is the base name of the member it was built from.
C15_DocumentShape ==
    /\ [](\A k \in 1..Len(built) : WellFormed(built[k]))
    /\ [](\A b \in 1..Len(batches) :
            \A k \in 1..Len(batches[b]) : WellFormed(batches[b][k]))
    /\ [][NamedByMember]_vars

C15_Witness ==
    /\ Len(batches) >= 1
    /\ \E k \in 1..Len(batches[1]) :
          /\ batches[1][k].id = <<"c", ".txt">>
          /\ batches[1][k].sections[1].link = "http://x"
          /\ batches[1][k].metadata = EmptyMap

NoRepeat(q) == \A j, k \in 1..Len(q) : j # k => q[j] # q[k]

\* Entries are handed over in increasing entry order within a location.
Forward(q) ==
    \A j, k \in 1..Len(q) :
        (j < k /\ q[j][1] = q[k][1]) => q[j][2] < q[k][2]

OnePass ==
    /\ NoRepeat(opened)
    /\ NoRepeat(handed)
    /\ Forward(handed)
    /\ NoRepeat(reads)
    /\ \A n \in 1..Len(reads) : \E h \in 1..Len(handed) : handed[h] = reads[n]
    /\ pc = "process" =>
          /\ cur.file.pos = 0
          /\ Last(handed) = <<loc_idx, cur.entry>>
          /\ \A n \in 1..Len(reads) : reads[n] # Last(handed)

\* Content is read by _process_file only, from the member handed over last.
ReaderReadsNothing ==
    /\ (handed' # handed \/ files' # files \/ opened' # opened)
          => reads' = reads
    /\ reads' # reads =>
          /\ pc = "process"
          /\ reads' = Append(reads, Last(handed))
          /\ UNCHANGED <<files, handed, opened>>

\* C16: within one load each container is opened once and its entries are
\* handed over in one forward pass, no entry twice; a stream is at position
\* 0 and unread when it is handed to _process_file; the steps of the
\* readers read no content, and every read is made by _process_file on
\* the member handed over last.
C16_OnePass == []OnePass /\ [][ReaderReadsNothing]_vars

C16_Witness ==
    /\ pc = "check"
    /\ Len(handed) >= 3
    /\ Len(reads) >= 2
    /\ Last(reads) = Last(handed)
    /\ cur.file.pos = Len(cur.file.content)
    /\ cur.file.pos > 0

\* A container is opened only when no handle is open.
OpensAfterClose ==
    opened' # opened =>
        /\ Released
        /\ opened' = Append(opened, loc_idx)
        /\ \A k \in 1..Len(opened) : opened[k] < loc_idx

OneContainer ==
    /\ Cardinality(container_open) <= 1
    /\ \A mem \in member_open : mem[1] \in container_open
    /\ Cardinality(member_open) <= 1
    /\ pc = "yielded" => container_open = {loc_idx}
    /\ pc = "done" => Released

\* C18: at every point of a load at most one container handle, and within
\* it at most one member handle, is open; while a batch yielded from the
\* loop is with the consumer it is the handle of the location being
\* traversed; a container is opened only when the earlier ones are closed,
\* and after the load has finished normally nothing is open.
C18_OneContainerOpen == []OneContainer /\ [][OpensAfterClose]_vars

C18_Witness ==
    /\ pc = "yielded"
    /\ opened = <<1, 2>>
    /\ container_open = {2}
    /\ member_open = {<<2, 1>>}

\* A read is made on the member the suspended reader is holding open.
ReadWhileOpen ==
    reads' # reads =>
        /\ Last(reads') = <<loc_idx, cur.entry>>
        /\ loc_idx \in container_open
        /\ Kind(file_locations[loc_idx]) = "zip"
              => <<loc_idx, cur.entry>> \in member_open
        /\ files.state = "suspended"
        /\ files.idx = cur.entry
        /\ UNCHANGED <<files, container_open, member_open>>

\* The reader is resumed only after the member it yielded has been dealt
\* with: read to its end, or rejected by its extension without a read.
ResumedAfterRead ==
    (pc = "for_member" /\ files.state = "suspended" /\ files' # files) =>
        IF check_file_ext_is_valid(cur.file_name)
        THEN /\ reads # <<>>
             /\ Last(reads) = <<loc_idx, cur.entry>>
             /\ cur.file.pos = Len(cur.file.content)
        ELSE \A n \in 1..Len(reads) : reads[n] # <<loc_idx, cur.entry>>

ReadBeforeYield ==
    pc = "yielded" =>
        /\ Last(reads) = <<loc_idx, cur.entry>>
        /\ cur.file.pos = Len(cur.file.content)
        /\ Last(Last(batches)).id = cur.file_name
        /\ files.state = "suspended"
        /\ loc_idx \in container_open

\* C19: every read of a member's content is made while the container, and
\* for a zip member its own stream, is open and the reader is still
\* suspended at that member; the reader is resumed only after the member
\* has been read to its end (or rejected unread); and when a batch is
\* yielded from the loop, the member whose Document completed it has
\* already been read to its end, with its container still open.
C19_ReadWhileOpen ==
    /\ [][ReadWhileOpen]_vars
    /\ [][ResumedAfterRead]_vars
    /\ []ReadBeforeYield

C19_Witness ==
    /\ pc = "yielded"
    /\ Kind(file_locations[loc_idx]) = "zip"
    /\ cur.entry = 3
    /\ Last(reads) = <<loc_idx, 3>>
    /\ <<loc_idx, 3>> \in member_open
    /\ Len(batches) = 1

QAEnded == qa_pc \in {"returned", "raised"}

\* The chunks at the 0-based positions chunk_offset up to, not including,
\* chunk_offset + NUM_GENERATIVE_AI_INPUT_DOCS that the ranked list has
\* (retrieval numbers the ranked chunks by rank: ranked_chunks[k] = k).
OffsetWindow ==
    SelectSeq(ranked_chunks,
              LAMBDA c : chunk_offset < c
                         /\ c <= chunk_offset + NUM_GENERATIVE_AI_INPUT_DOCS)

OffsetContract ==
    /\ Len(model_calls) <= 1
    /\ (QAEnded /\ ranked_chunks # <<>>
            /\ chunk_offset >= Len(ranked_chunks))
          => /\ qa_out = [kind |-> "raised", exc |-> "ValueError"]
             /\ model_calls = <<>>
    /\ (QAEnded /\ ranked_chunks # <<>>
            /\ chunk_offset < Len(ranked_chunks))
          => /\ qa_out.kind = "response"
             /\ Len(model_calls) = 1
             /\ model_calls[1] # <<>>
             /\ Len(model_calls[1]) <= NUM_GENERATIVE_AI_INPUT_DOCS
             /\ model_calls[1] = OffsetWindow
    /\ (QAEnded /\ ranked_chunks = <<>>)
          => /\ qa_out.kind = "response"
             /\ qa_out.answer = None
             /\ model_calls = <<>>

\* C17: with a non-empty ranked list, offset * NUM_GENERATIVE_AI_INPUT_DOCS
\* >= len(ranked_chunks) ends in ValueError without a model call, and any
\* other offset ends in a response after exactly one model call on the
\* non-empty window of at most NUM_GENERATIVE_AI_INPUT_DOCS ranked chunks
\* starting at that position; with no ranked chunks the response has no
\* answer and the model is not called.
C17_OffsetContract == OffsetContract

\* The same for offsets that are None or not negative.
C17_NonNegativeOffsets == offset_count >= 0 => OffsetContract

\* A negative offset passes the range test and the model is asked about
\* no chunks at all.
C17_NegativeOffsetAsksWithNothing ==
    /\ qa_pc = "returned"
    /\ question.offset = Some(-1)
    /\ Len(ranked_chunks) = 3
    /\ model_calls = << <<>> >>
    /\ qa_out.kind = "response"

ModelExceptionContained ==
    /\ model_raises =>
          /\ qa_pc = "returned"
          /\ qa_out.kind = "response"
          /\ qa_out.answer = None
          /\ qa_out.quotes = None
          /\ qa_out.error_msg # None
          /\ qa_out.top_ranked_docs
                = Some(chunks_to_search_docs(ranked_chunks))
          /\ qa_out.lower_ranked_docs
                = Some(chunks_to_search_docs(unranked_chunks))
    /\ (qa_out.kind = "response" /\ ~model_raises)
          => qa_out.error_msg = None
    /\ qa_out.kind = "raised"
          => /\ ~model_raises
             /\ model_calls = <<>>
             /\ qa_out.exc = "ValueError"

\* C20: when the model call raises, answer_question still returns a
\* response: answer and quotes None, error_msg set, and the documents of
\* the ranked and of the unranked chunks; a response made without a model
\* exception has error_msg None, and the only exception answer_question
\* itself ends in is the ValueError of the offset test, before any model
\* call.
C20_ModelExceptionContained == ModelExceptionContained

C20_Witness ==
    /\ qa_pc = "returned"
    /\ model_raises
    /\ Len(ranked_chunks) = 3
    /\ unranked_chunks # <<>>
    /\ qa_out.kind = "response"
    /\ qa_out.error_msg # None
    /\ Len(qa_out.top_ranked_docs[1]) = 3
====
